---- MODULE Spec2Model ----
(***************************************************************************)
(* A model of asyncpraw's request pipeline (asyncpraw/reddit.py): the      *)
(* dispatcher Reddit.request with its parameter normalisation and its      *)
(* handling of BadRequest, the verbs get/post/put/patch/delete built on    *)
(* _objectify_request, the rate-limit policy _handle_rate_limit and the    *)
(* single retry of Reddit.post, Reddit.info with its generator that asks   *)
(* for 100 fullnames at a time, Reddit.random_subreddit, the read_only     *)
(* property that selects the transport core, and ReplyableMixin.reply      *)
(* (asyncpraw/models/reddit/mixins/replyable.py).                          *)
(*                                                                         *)
(* Python values are encoded as follows.                                   *)
(*   - A parameter value is a record [kind, repr]: its Python type and     *)
(*     its str() form.                                                     *)
(*   - An optional mapping (params) is [is_none, map]; map is a function   *)
(*     from key to parameter value.                                        *)
(*   - A request body (data, json, files) is a token: "None", "{}" (an     *)
(*     empty container) or a non-empty payload.                            *)
(*   - A message is a sequence of tokens: one token per digit, " " for a   *)
(*     blank, the words "second" and "minute", "s" for a plural s, and     *)
(*     "w" for any other run of text.                                      *)
(*   - The float returned by _handle_rate_limit is kept in tenths of a     *)
(*     second (7.7 s is 77); an optional number is <<>> (None) or <<n>>.   *)
(*   - An exception is a record [type, items, body]: items are the error   *)
(*     items of a RedditAPIException, body the response body of the        *)
(*     BadRequest that is the exception or caused it.                      *)
(***************************************************************************)
EXTENDS Integers, Sequences, FiniteSets, TLC

VARIABLES
    _core,              \* Reddit._core: the core requests are sent through
    _read_only_core,    \* Reddit._read_only_core
    _authorized_core,   \* Reddit._authorized_core ("None" when absent)
    ratelimit_seconds,  \* Reddit.config.ratelimit_seconds
    setter_raised,      \* outcome of the last read_only assignment
    assigned,           \* the value of the last read_only assignment
    _unique_counter,    \* Reddit._unique_counter
    pc,                 \* per call: where the coroutine is suspended
    op,                 \* per call: the method invoked
    args,               \* per call: the arguments as the method holds them
    caught,             \* per call: the exception a handler caught
    trace,              \* per call: transport calls and sleeps, in order
    received,           \* per call: the transport's answers, in order
    outcome,            \* per call: what the caller got
    caller_params,      \* per call: the caller's params mapping after the call
    gen,                \* per call: the async generator info returned
    rl_in,              \* the exception handed to _handle_rate_limit alone
    rl_out              \* what it returned

reddit_vars == <<_core, _read_only_core, _authorized_core, ratelimit_seconds,
                 setter_raised, assigned, _unique_counter>>
call_vars == <<pc, op, args, caught, trace, received, outcome, caller_params, gen>>
study_vars == <<rl_in, rl_out>>
vars == <<reddit_vars, call_vars, study_vars>>

---------------------------------------------------------------------------
(* Python values                                                           *)

None == "None"

PyNone == [kind |-> "NoneType", repr |-> "None"]
PyBool(b) == [kind |-> "bool", repr |-> IF b THEN "True" ELSE "False"]
PyInt(r) == [kind |-> "int", repr |-> r]
PyStr(s) == [kind |-> "str", repr |-> s]
PyList(r) == [kind |-> "list", repr |-> r]

\* bool(v) of a parameter value
Truthy(v) ==
    CASE v.kind = "NoneType" -> FALSE
      [] v.kind = "bool" -> v.repr = "True"
      [] v.kind = "int" -> v.repr # "0"
      [] v.kind = "str" -> v.repr # ""
      [] v.kind = "list" -> v.repr # "[]"

\* str.lower() on the strings str(bool) produces
Lower(s) ==
    CASE s = "True" -> "true"
      [] s = "False" -> "false"
      [] OTHER -> s

\* bool(x) of a body token: None and empty containers are falsy
TruthyBody(x) == x \notin {"None", "{}", ""}

EmptyMap == [k \in {} |-> PyNone]
NoParams == [is_none |-> TRUE, map |-> EmptyMap]
PyDict(m) == [is_none |-> FALSE, map |-> m]

\* bool(params)
TruthyParams(p) == ~p.is_none /\ DOMAIN p.map # {}

---------------------------------------------------------------------------
(* Reddit.request, lines 782-789: the parameters handed to the transport   *)

\* faulty variant: truthiness tested before isinstance(v, bool), so that
\* False is dropped
NormalizeDropFalse(params) ==
    IF TruthyParams(params)
    THEN LET kept == {k \in DOMAIN params.map : Truthy(params.map[k])}
         IN  PyDict([k \in kept |->
                 IF params.map[k].kind = "bool"
                 THEN PyStr(Lower(params.map[k].repr))
                 ELSE params.map[k]])
    ELSE params

\* lines 782-789
NormalizeParams(params) ==
    IF TruthyParams(params)
    THEN LET kept == {k \in DOMAIN params.map :
                         params.map[k].kind = "bool" \/ Truthy(params.map[k])}
         IN  PyDict([k \in kept |->
                 IF params.map[k].kind = "bool"
                 THEN PyStr(Lower(params.map[k].repr))
                 ELSE params.map[k]])
    ELSE params

\* faulty variant: the check of line 790 left out
DataJsonNoCheck(data, json) == FALSE

\* Reddit.request, line 790: `if data and json`
DataJsonConflict(data, json) == TruthyBody(data) /\ TruthyBody(json)

---------------------------------------------------------------------------
(* Reddit._ratelimit_regex, line 59: ([0-9]{1,2}) (seconds?|minutes?)      *)

DigitChars == <<"0", "1", "2", "3", "4", "5", "6", "7", "8", "9">>
IsDigit(c) == \E i \in 1..Len(DigitChars) : DigitChars[i] = c
DigitVal(c) == (CHOOSE i \in 1..Len(DigitChars) : DigitChars[i] = c) - 1

\* int(s) of a string of digits
RECURSIVE PyIntOf(_)
PyIntOf(ds) ==
    IF ds = <<>> THEN 0
    ELSE 10 * PyIntOf(SubSeq(ds, 1, Len(ds) - 1)) + DigitVal(ds[Len(ds)])

\* re.match of the pattern at position i with n digits in group 1
MatchAt(msg, i, n) ==
    /\ i + n + 1 <= Len(msg)
    /\ \A j \in i..(i + n - 1) : IsDigit(msg[j])
    /\ msg[i + n] = " "
    /\ msg[i + n + 1] \in {"second", "minute"}

NoMatch == [found |-> FALSE, amount |-> <<>>, unit |-> ""]

\* the match at position i: the quantifier {1,2} is greedy
GroupsAt(msg, i) ==
    IF MatchAt(msg, i, 2)
    THEN [found |-> TRUE, amount |-> SubSeq(msg, i, i + 1), unit |-> msg[i + 3]]
    ELSE IF MatchAt(msg, i, 1)
    THEN [found |-> TRUE, amount |-> SubSeq(msg, i, i), unit |-> msg[i + 2]]
    ELSE NoMatch

\* _ratelimit_regex.search(message): the leftmost match
RegexSearch(msg) ==
    LET starts == {i \in 1..Len(msg) : GroupsAt(msg, i).found}
    IN  IF starts = {} THEN NoMatch
        ELSE GroupsAt(msg, CHOOSE i \in starts : \A j \in starts : i <= j)

---------------------------------------------------------------------------
(* Reddit._handle_rate_limit, lines 597-611                                *)

NoneNumber == <<>>
Number(n) == <<n>>

\* lines 605-607: the delay in seconds of a match
DelayOf(m) ==
    IF m.unit = "minute" THEN PyIntOf(m.amount) * 60 ELSE PyIntOf(m.amount)

\* faulty variant: the margin left out
SleepNoMargin(seconds) == 10 * seconds

\* line 609, in tenths of a second: seconds + min(seconds / 10, 1)
SleepTenths(seconds) ==
    10 * seconds + (IF seconds <= 10 THEN seconds ELSE 10)

\* faulty variant: the threshold ignored
WithinAlways(seconds, limit) == TRUE

\* line 608: seconds <= int(self.config.ratelimit_seconds)
WithinLimit(seconds, limit) == seconds <= limit

\* the loop of lines 600-611 from item i on
RECURSIVE RateLimitFrom(_, _, _)
RateLimitFrom(items, i, limit) ==
    IF i > Len(items) THEN NoneNumber
    ELSE IF items[i].error_type = "RATELIMIT"
    THEN LET amount_search == RegexSearch(items[i].message)
         IN  IF ~amount_search.found THEN NoneNumber
             ELSE IF WithinLimit(DelayOf(amount_search), limit)
             THEN Number(SleepTenths(DelayOf(amount_search)))
             ELSE RateLimitFrom(items, i + 1, limit)
    ELSE RateLimitFrom(items, i + 1, limit)

_handle_rate_limit(exception, limit) == RateLimitFrom(exception.items, 1, limit)

---------------------------------------------------------------------------
(* Exceptions, response bodies and results                                 *)

NoBody == [json |-> FALSE, keys |-> {}, reason |-> "", explanation |-> <<>>,
           fields |-> <<>>]

\* a decoded JSON object: its key set and the values of the keys read
JsonBody(keys, reason, explanation, fields) ==
    [json |-> TRUE, keys |-> keys, reason |-> reason,
     explanation |-> explanation, fields |-> fields]

Exc(type, items, body) == [type |-> type, items |-> items, body |-> body]
NoExc == Exc("", <<>>, NoBody)

ErrorItem(error_type, message, field) ==
    [error_type |-> error_type, message |-> message, field |-> field]

\* RedditAPIException(items): one error item per entry
RedditAPIException(items, body) == Exc("RedditAPIException", items, body)

NoValue == [type |-> "", elems |-> <<>>]
Pending == [kind |-> "pending", value |-> NoValue, exc |-> NoExc]
Return(v) == [kind |-> "return", value |-> v, exc |-> NoExc]
Raise(e) == [kind |-> "raise", value |-> NoValue, exc |-> e]

NoRaw == [shape |-> "", items |-> <<>>, children |-> <<>>]
Response(status, body, raw) == [status |-> status, body |-> body, raw |-> raw]

---------------------------------------------------------------------------
(* Reddit.request, lines 802-821: the exception raised for a BadRequest    *)
(* whose response has the given body                                       *)

FieldOf(body) == IF "fields" \in body.keys THEN body.fields[1] ELSE None

\* the exception the transport raises for a response that is not a success
TransportError(resp) == Exc(resp.status, <<>>, resp.body)

\* faulty variant: the generic body is not told apart (line 812 left out)
OnBadRequestWrapAll(exception) ==
    IF ~exception.body.json THEN Exc("Exception", <<>>, exception.body)
    ELSE IF "fields" \in exception.body.keys /\ Len(exception.body.fields) # 1
    THEN Exc("AssertionError", <<>>, exception.body)
    ELSE IF ~({"reason", "explanation"} \subseteq exception.body.keys)
    THEN Exc("KeyError", <<>>, exception.body)
    ELSE RedditAPIException(
             <<ErrorItem(exception.body.reason, exception.body.explanation,
                         FieldOf(exception.body))>>, exception.body)

\* faulty variant: the field is never read (lines 814-816 left out)
OnBadRequestNoField(exception) ==
    IF ~exception.body.json THEN Exc("Exception", <<>>, exception.body)
    ELSE IF exception.body.keys = {"error", "message"} THEN exception
    ELSE IF "fields" \in exception.body.keys /\ Len(exception.body.fields) # 1
    THEN Exc("AssertionError", <<>>, exception.body)
    ELSE IF ~({"reason", "explanation"} \subseteq exception.body.keys)
    THEN Exc("KeyError", <<>>, exception.body)
    ELSE RedditAPIException(
             <<ErrorItem(exception.body.reason, exception.body.explanation, None)>>,
             exception.body)

\* faulty variant: an undecodable body re-raises the BadRequest
OnBadRequestNoJsonReraise(exception) ==
    IF ~exception.body.json THEN exception
    ELSE IF exception.body.keys = {"error", "message"} THEN exception
    ELSE IF "fields" \in exception.body.keys /\ Len(exception.body.fields) # 1
    THEN Exc("AssertionError", <<>>, exception.body)
    ELSE IF ~({"reason", "explanation"} \subseteq exception.body.keys)
    THEN Exc("KeyError", <<>>, exception.body)
    ELSE RedditAPIException(
             <<ErrorItem(exception.body.reason, exception.body.explanation,
                         FieldOf(exception.body))>>, exception.body)

\* lines 802-821: the handler of BadRequest; `raise` gives the exception itself
OnBadRequest(exception) ==
    IF ~exception.body.json THEN Exc("Exception", <<>>, exception.body)
    ELSE IF exception.body.keys = {"error", "message"} THEN exception
    ELSE IF "fields" \in exception.body.keys /\ Len(exception.body.fields) # 1
    THEN Exc("AssertionError", <<>>, exception.body)
    ELSE IF ~({"reason", "explanation"} \subseteq exception.body.keys)
    THEN Exc("KeyError", <<>>, exception.body)
    ELSE RedditAPIException(
             <<ErrorItem(exception.body.reason, exception.body.explanation,
                         FieldOf(exception.body))>>, exception.body)

\* Reddit.request, lines 792-821: what request gives for a transport response
RequestResult(resp) ==
    IF resp.status = "ok" THEN Return([type |-> "raw", elems |-> <<>>])
    ELSE IF resp.status = "BadRequest" THEN Raise(OnBadRequest(TransportError(resp)))
    ELSE Raise(TransportError(resp))

\* Objector.objectify on the decoded response (asyncpraw/objector.py): a list
\* of envelopes gives the objects in order, untagged data passes through, an
\* unknown kind raises, and an envelope of API errors raises the
\* RedditAPIException that the handler of Reddit.post is written for
Objectify(raw) ==
    CASE raw.shape = "list" -> Return([type |-> "list", elems |-> raw.children])
      [] raw.shape = "untagged" -> Return([type |-> "dict", elems |-> raw.children])
      [] raw.shape = "unknown_kind" -> Raise(Exc("UnrecognizedKind", <<>>, NoBody))
      [] raw.shape = "errors" -> Raise(RedditAPIException(raw.items, NoBody))

\* Reddit._objectify_request, lines 586-595
ObjectifyRequestResult(resp) ==
    IF RequestResult(resp).kind = "raise" THEN RequestResult(resp)
    ELSE Objectify(resp.raw)

---------------------------------------------------------------------------
(* The verbs: the arguments each hands to Reddit.request                   *)

NoFullnames == [kind |-> "NoneType", ids |-> <<>>]

Args(method, path, params, data, files, json) ==
    [method |-> method, path |-> path, params |-> params, data |-> data,
     files |-> files, json |-> json, fullnames |-> NoFullnames, url |-> None,
     body |-> None, fullname |-> None, nsfw |-> FALSE]

InfoArgs(fullnames, url) ==
    [method |-> "", path |-> "", params |-> NoParams, data |-> None,
     files |-> None, json |-> None, fullnames |-> fullnames, url |-> url,
     body |-> None, fullname |-> None, nsfw |-> FALSE]

\* the entries of API_PATH the modelled methods use (asyncpraw/const.py)
API_PATH ==
    [comment |-> "api/comment/", info |-> "api/info/", subreddit |-> "r/{subreddit}/",
     subreddit_about |-> "r/{subreddit}/about/"]

\* ReplyableMixin.reply, line 37: the form {"text": body, "thing_id": fullname}
ReplyData(body, fullname) == "text=" \o body \o "&thing_id=" \o fullname

\* ReplyableMixin.reply(body) on a target with the given fullname, line 38:
\* the arguments of its call of Reddit.post
ReplyArgs(body, fullname) ==
    [method |-> "", path |-> API_PATH.comment, params |-> NoParams,
     data |-> ReplyData(body, fullname), files |-> None, json |-> None,
     fullnames |-> NoFullnames, url |-> None,
     body |-> body, fullname |-> fullname, nsfw |-> FALSE]

\* Reddit.random_subreddit, line 727: the url
RandomUrl(nsfw) == IF nsfw THEN "r/randnsfw/" ELSE "r/random/"

\* Reddit.random_subreddit(nsfw), lines 727-730: the arguments of its call of
\* Reddit.get when _next_unique gave the value unique
RandomArgs(nsfw, unique) ==
    [method |-> "", path |-> RandomUrl(nsfw),
     params |-> PyDict([k \in {"unique"} |-> PyInt(ToString(unique))]),
     data |-> None, files |-> None, json |-> None,
     fullnames |-> NoFullnames, url |-> None,
     body |-> None, fullname |-> None, nsfw |-> nsfw]

NoArgs == InfoArgs(NoFullnames, None)

\* Reddit.post, lines 675-676
PostData(data, json) ==
    IF json = None THEN (IF TruthyBody(data) THEN data ELSE "{}") ELSE data

\* the keyword arguments of the first _objectify_request of each verb:
\* get 504, delete 629-631, patch 649-651, post 678-685, put 716-718
VerbArgs(o, a) ==
    CASE o = "request" -> Args(a.method, a.path, a.params, a.data, a.files, a.json)
      [] o = "get" -> Args("GET", a.path, a.params, None, None, None)
      [] o = "delete" -> Args("DELETE", a.path, NoParams, a.data, None, a.json)
      [] o = "patch" -> Args("PATCH", a.path, NoParams, a.data, None, a.json)
      [] o = "put" -> Args("PUT", a.path, NoParams, a.data, None, a.json)
      [] o = "post" -> Args("POST", a.path, a.params,
                            PostData(a.data, a.json), a.files, a.json)

\* Reddit.post, lines 691-697: the keyword arguments of the retry
PostRetryArgs(a) ==
    Args("POST", a.path, a.params, PostData(a.data, a.json), a.files, None)

\* faulty variant: the normalised entries are written into the caller's mapping
RequestParamsInPlace(params) ==
    [caller |-> IF TruthyParams(params) THEN NormalizeParams(params) ELSE params,
     sent |-> NormalizeParams(params)]

\* Reddit.request, lines 782-789: the two mappings after the normalisation:
\* the object the caller passed, which is only read, and the object bound to
\* params afterwards (new_params when params was truthy), which is sent
RequestParams(params) ==
    [caller |-> params, sent |-> NormalizeParams(params)]

\* Reddit.request, lines 793-801: what reaches the transport
Transmitted(r) ==
    [method |-> r.method, path |-> r.path, params |-> RequestParams(r.params).sent,
     data |-> r.data, files |-> r.files, json |-> r.json]

NoReq == [method |-> "", path |-> "", params |-> NoParams, data |-> None,
          files |-> None, json |-> None]

CallEvent(core, r) == [ev |-> "call", core |-> core, req |-> r, secs |-> NoneNumber]
SleepEvent(seconds) == [ev |-> "sleep", core |-> "", req |-> NoReq, secs |-> seconds]

\* faulty variant: no check when info is called
InfoCheckLate(fullnames, url) == NoExc

\* Reddit.info, lines 532-540: the exception of the argument check, NoExc if none
InfoCheck(fullnames, url) ==
    LET none_count == (IF fullnames.kind = "NoneType" THEN 1 ELSE 0)
                      + (IF url = None THEN 1 ELSE 0)
    IN  IF none_count > 1 THEN Exc("TypeError", <<>>, NoBody)
        ELSE IF none_count < 1 THEN Exc("TypeError", <<>>, NoBody)
        ELSE IF fullnames.kind = "str" THEN Exc("TypeError", <<>>, NoBody)
        ELSE NoExc

\* islice(iterable, 100), line 545
ChunkSize == 100

\* faulty variant: the slice is one too long
TakeChunkLong(rest) ==
    SubSeq(rest, 1, IF Len(rest) < ChunkSize + 1 THEN Len(rest) ELSE ChunkSize + 1)

\* Reddit.info, line 545: list(islice(iterable, 100)) when the iterator has
\* the given elements left
TakeChunk(rest) ==
    SubSeq(rest, 1, IF Len(rest) < ChunkSize THEN Len(rest) ELSE ChunkSize)

\* what the iterator has left after the chunk was taken
AfterChunk(rest) == SubSeq(rest, Len(TakeChunk(rest)) + 1, Len(rest))

RECURSIVE Join(_)
\* ",".join(chunk), line 549
Join(chunk) ==
    IF Len(chunk) = 0 THEN ""
    ELSE IF Len(chunk) = 1 THEN chunk[1]
    ELSE Join(SubSeq(chunk, 1, Len(chunk) \div 2)) \o ","
             \o Join(SubSeq(chunk, Len(chunk) \div 2 + 1, Len(chunk)))

\* Reddit.info, lines 549 and 556: the params of the request
InfoParams(chunk) == PyDict([k \in {"id"} |-> PyStr(Join(chunk))])
UrlParams(url) == PyDict([k \in {"url"} |-> PyStr(url)])

\* Reddit.info, lines 550 and 557: the arguments of self.get
InfoGetArgs(params) ==
    [method |-> "", path |-> API_PATH.info, params |-> params, data |-> None,
     files |-> None, json |-> None, fullnames |-> NoFullnames, url |-> None,
     body |-> None, fullname |-> None, nsfw |-> FALSE]

\* faulty variant: the batch is yielded last item first
BatchReversed(res) ==
    [i \in 1..Len(res.value.elems) |->
        res.value.elems[Len(res.value.elems) + 1 - i]]

\* Reddit.info, lines 550-551 and 557-558: the items the for loop goes through
Batch(res) == res.value.elems

\* faulty variant: the retry is wrapped in the same handler (a retry loop)
RetryAlways(attempt, exc, limit) ==
    /\ exc.type = "RedditAPIException"
    /\ _handle_rate_limit(exc, limit) # NoneNumber

\* faulty variant: the result of _handle_rate_limit is not tested
RetryAnyApiError(attempt, exc, limit) ==
    /\ attempt = 1
    /\ exc.type = "RedditAPIException"

\* Reddit.post, lines 686-698: whether the handler sleeps and retries after
\* the given attempt raised exc
PostRetries(attempt, exc, limit) ==
    /\ attempt = 1
    /\ exc.type = "RedditAPIException"
    /\ _handle_rate_limit(exc, limit) # NoneNumber

\* the argument of asyncio.sleep, lines 687-690
SleepArgument(exc, limit) == _handle_rate_limit(exc, limit)

\* what the awaited call of one attempt gives: Reddit.request returns the
\* decoded response as it is, the other operations go through
\* _objectify_request
VerbResult(o, resp) ==
    IF o = "request" THEN RequestResult(resp) ELSE ObjectifyRequestResult(resp)

\* faulty variant: the handler sits in _objectify_request, under every verb
HasRetryHandlerAll(o) == TRUE

\* the operations that run the try/except of Reddit.post, lines 677-698: post
\* itself and reply, which awaits post (replyable.py, line 38)
HasRetryHandler(o) == o \in {"post", "reply"}

NoneValue == [type |-> "NoneType", elems |-> <<>>]
Object(x) == [type |-> "object", elems |-> <<x>>]

\* faulty variant: no handler of IndexError
ReplyResultNoHandler(res) ==
    IF res.kind = "raise" THEN res
    ELSE IF res.value.type # "list" THEN Raise(Exc("KeyError", <<>>, NoBody))
    ELSE IF Len(res.value.elems) = 0 THEN Raise(Exc("IndexError", <<>>, NoBody))
    ELSE Return(Object(res.value.elems[1]))

\* faulty variant: a bare except around the whole of reply
ReplyResultBareExcept(res) ==
    IF res.kind = "raise" THEN Return(NoneValue)
    ELSE IF res.value.type # "list" THEN Return(NoneValue)
    ELSE IF Len(res.value.elems) = 0 THEN Return(NoneValue)
    ELSE Return(Object(res.value.elems[1]))

\* ReplyableMixin.reply, lines 38-42: what reply gives when its post gave res;
\* comments[0] of a dict raises KeyError, of an empty list the IndexError
\* that is caught
ReplyResult(res) ==
    IF res.kind = "raise" THEN res
    ELSE IF res.value.type # "list" THEN Raise(Exc("KeyError", <<>>, NoBody))
    ELSE IF Len(res.value.elems) = 0 THEN Return(NoneValue)
    ELSE Return(Object(res.value.elems[1]))

\* Redirect.path.split("/") of the Redirect raised for the response
RedirectPath(resp) == resp.raw.children

\* Reddit.random_subreddit, lines 729-733: whether the get was redirected to
\* a path that names a subreddit, so that _fetch is awaited
RandomFetches(resp) ==
    /\ ObjectifyRequestResult(resp).kind = "raise"
    /\ ObjectifyRequestResult(resp).exc.type = "Redirect"
    /\ Len(RedirectPath(resp)) >= 3

\* Reddit.random_subreddit, lines 729-733: what it raises when _fetch is not
\* reached: the exception of the get unless it is a Redirect, IndexError when
\* the path has fewer than three parts, AttributeError when path stayed None
RandomGetResult(resp) ==
    LET res == ObjectifyRequestResult(resp)
    IN  IF res.kind = "raise" /\ res.exc.type = "Redirect"
        THEN Raise(Exc("IndexError", <<>>, NoBody))
        ELSE IF res.kind = "raise" THEN res
        ELSE Raise(Exc("AttributeError", <<>>, NoBody))

\* Subreddit._fetch (asyncpraw/models/reddit/subreddit.py): one GET of the
\* subreddit's about page through Reddit.request
FetchArgs(name) ==
    [method |-> "GET", path |-> "r/" \o name \o "/about/", params |-> NoParams,
     data |-> None, files |-> None, json |-> None,
     fullnames |-> NoFullnames, url |-> None,
     body |-> None, fullname |-> None, nsfw |-> FALSE]

\* Reddit.random_subreddit, lines 733-735: what it gives once _fetch is done
FetchResult(name, resp) ==
    IF RequestResult(resp).kind = "raise" THEN RequestResult(resp)
    ELSE Return([type |-> "Subreddit", elems |-> <<name>>])

\* Subreddit.search(query, params=params): the generator's params are a copy
\* of the caller's mapping with the query added
\* (tests/unit/models/reddit/test_subreddit.py, lines 80-85)
SearchParams(params, query) ==
    [caller |-> params,
     kept |-> PyDict([k \in (DOMAIN params.map) \cup {"q"} |->
                        IF k = "q" THEN query ELSE params.map[k]])]

---------------------------------------------------------------------------
(* The inputs: what callers pass and what the server answers               *)

Calls == {"c1"}

Msg5s == <<"w", " ", "5", " ", "second", "s">>
Msg5m == <<"w", " ", "5", " ", "minute", "s">>
MsgPlain == <<"w">>

RateLimitItem(message) == ErrorItem("RATELIMIT", message, "ratelimit")

ItemLists ==
    { <<RateLimitItem(Msg5s)>>,
      <<RateLimitItem(Msg5m)>>,
      <<RateLimitItem(MsgPlain)>>,
      <<ErrorItem("BAD_CAPTCHA", Msg5s, "captcha")>>,
      <<RateLimitItem(Msg5m), RateLimitItem(Msg5s)>> }

Bodies ==
    { NoBody,
      JsonBody({"error", "message"}, "", <<>>, <<>>),
      JsonBody({"reason", "explanation", "fields"}, "RATELIMIT", Msg5s, <<"ratelimit">>),
      JsonBody({"reason", "explanation"}, "BAD_SR_NAME", MsgPlain, <<>>),
      JsonBody({"error", "message", "reason", "explanation"}, "RATELIMIT", Msg5m, <<>>),
      JsonBody({"reason", "explanation", "fields"}, "BAD_SR_NAME", MsgPlain, <<"sr", "title">>),
      JsonBody({"reason", "explanation", "fields"}, "BAD_SR_NAME", MsgPlain, <<>>),
      JsonBody({"error"}, "", <<>>, <<>>) }

Raws ==
    { [shape |-> "list", items |-> <<>>, children |-> <<"t1_a">>],
      [shape |-> "list", items |-> <<>>, children |-> <<>>],
      [shape |-> "untagged", items |-> <<>>, children |-> <<>>],
      [shape |-> "unknown_kind", items |-> <<>>, children |-> <<>>] }
    \cup { [shape |-> "errors", items |-> il, children |-> <<>>] : il \in ItemLists }

Responses ==
    { Response("ok", NoBody, raw) : raw \in Raws }
    \cup { Response("BadRequest", body, NoRaw) : body \in Bodies }
    \cup { Response("Redirect", NoBody, NoRaw), Response("ServerError", NoBody, NoRaw),
           Response("Redirect", NoBody,
                    [shape |-> "redirect", items |-> <<>>,
                     children |-> <<"", "r", "redditdev", "">>]) }

ParamsChoices ==
    { NoParams,
      PyDict([k \in {"a", "b"} |-> IF k = "a" THEN PyBool(TRUE) ELSE PyStr("")]),
      PyDict([k \in {"a", "b"} |-> IF k = "a" THEN PyBool(FALSE) ELSE PyStr("x")]) }

DataChoices == {None, "{}", "form"}
JsonChoices == {None, "{}", "obj"}
FilesChoices == {None, "file"}
Paths == {"api/comment"}
Methods == {"GET", "POST"}

RequestInputs ==
    { Args(m, p, pa, d, None, j) :
        m \in Methods, p \in Paths, pa \in ParamsChoices, d \in DataChoices,
        j \in JsonChoices }
GetInputs == { Args("", p, pa, None, None, None) : p \in Paths, pa \in ParamsChoices }
BodyVerbInputs ==
    { Args("", p, NoParams, d, None, j) :
        p \in Paths, d \in DataChoices, j \in JsonChoices }
PostInputs ==
    { Args("", p, pa, d, f, j) :
        p \in Paths, pa \in ParamsChoices, d \in DataChoices, f \in FilesChoices,
        j \in JsonChoices }
InfoInputs ==
    { InfoArgs(f, u) :
        f \in { NoFullnames, [kind |-> "str", ids |-> <<>>],
                [kind |-> "list", ids |-> <<"t3_1", "t3_2">>] },
        u \in {None, "url"} }

ReplyBodies == {"hello", ""}
ReplyTargets == {"t3_5or86n", "t1_dxolpyc"}

\* params of test_search__params_not_modified, and a mapping with values
\* that Reddit.request would rewrite
SearchChoices ==
    { PyDict([k \in {"dummy"} |-> PyStr("value")]),
      PyDict([k \in {"a", "b"} |-> IF k = "a" THEN PyBool(TRUE) ELSE PyStr("")]) }

LimitChoices == {5, 300}

---------------------------------------------------------------------------
(* The state machine                                                       *)

NotComputed == [done |-> FALSE, result |-> NoneNumber]

\* faulty variant: the else branches of lines 439-440 and 451-452 left out, so
\* that _core keeps the None of line 179 when there is no authorized core
InitRedditNoElse ==
    /\ _read_only_core = "read_only_core"
    /\ _authorized_core \in {None, "authorized_core"}
    /\ _core = _authorized_core
    /\ setter_raised = ""
    /\ assigned = None
    /\ _unique_counter = 0

\* Reddit.__init__ with _prepare_trusted_asyncprawcore or
\* _prepare_untrusted_asyncprawcore, lines 421-452
InitReddit ==
    /\ _read_only_core = "read_only_core"
    /\ _authorized_core \in {None, "authorized_core"}
    /\ _core = IF _authorized_core = None THEN _read_only_core ELSE _authorized_core
    /\ setter_raised = ""
    /\ assigned = None
    /\ _unique_counter = 0

\* the generator object of Reddit.info: where it is suspended, what the
\* iterator has left, the chunk in flight, the items of the current batch not
\* yet yielded, the items yielded so far and the exception that ended it;
\* for Subreddit.search only params is used
NoGen ==
    [state |-> "none", mode |-> "", rest |-> <<>>, url |-> None, requested |-> FALSE,
     chunk |-> <<>>, buffer |-> <<>>, yielded |-> <<>>, exc |-> NoExc,
     params |-> NoParams]

InitCalls ==
    /\ pc = [c \in Calls |-> "idle"]
    /\ op = [c \in Calls |-> ""]
    /\ args = [c \in Calls |-> NoArgs]
    /\ caught = [c \in Calls |-> NoExc]
    /\ trace = [c \in Calls |-> <<>>]
    /\ received = [c \in Calls |-> <<>>]
    /\ outcome = [c \in Calls |-> Pending]
    /\ caller_params = [c \in Calls |-> NoParams]
    /\ gen = [c \in Calls |-> NoGen]

Init ==
    /\ InitReddit
    /\ ratelimit_seconds \in LimitChoices
    /\ InitCalls
    /\ rl_in = NoExc
    /\ rl_out = NotComputed

\* Reddit.request, lines 782-801, entered with the keyword arguments r: the
\* argument check, then the call of the transport where the coroutine suspends
EnterRequest(c, r, next_pc) ==
    IF DataJsonConflict(r.data, r.json)
    THEN /\ outcome' = [outcome EXCEPT ![c] = Raise(Exc("ClientException", <<>>, NoBody))]
         /\ pc' = [pc EXCEPT ![c] = "done"]
         /\ UNCHANGED trace
    ELSE /\ trace' = [trace EXCEPT ![c] = Append(@, CallEvent(_core, Transmitted(r)))]
         /\ pc' = [pc EXCEPT ![c] = next_pc]
         /\ UNCHANGED outcome

\* a caller awaits request, get, delete, patch, put or post
CallVerb(c, o, a) ==
    /\ pc[c] = "idle"
    /\ op' = [op EXCEPT ![c] = o]
    /\ args' = [args EXCEPT ![c] = a]
    /\ EnterRequest(c, VerbArgs(o, a), "transport1")
    /\ caller_params' = [caller_params EXCEPT ![c] =
           RequestParams(VerbArgs(o, a).params).caller]
    /\ UNCHANGED <<reddit_vars, caught, received, gen, study_vars>>

\* a caller awaits reply(body) on a comment or submission with the fullname
CallReply(c, body, fullname) ==
    /\ pc[c] = "idle"
    /\ op' = [op EXCEPT ![c] = "reply"]
    /\ args' = [args EXCEPT ![c] = ReplyArgs(body, fullname)]
    /\ EnterRequest(c, VerbArgs("post", ReplyArgs(body, fullname)), "transport1")
    /\ UNCHANGED <<reddit_vars, caught, received, caller_params, gen, study_vars>>

\* a caller awaits random_subreddit(nsfw): _next_unique, lines 61-65, then
\* the get of line 730
CallRandom(c, nsfw) ==
    /\ pc[c] = "idle"
    /\ op' = [op EXCEPT ![c] = "random_subreddit"]
    /\ args' = [args EXCEPT ![c] = RandomArgs(nsfw, _unique_counter)]
    /\ _unique_counter' = _unique_counter + 1
    /\ EnterRequest(c, VerbArgs("get", RandomArgs(nsfw, _unique_counter)), "transport1")
    /\ UNCHANGED <<_core, _read_only_core, _authorized_core, ratelimit_seconds,
                   setter_raised, assigned, caught, received, caller_params, gen,
                   study_vars>>

\* a caller calls Subreddit.search(query, params=params)
CallSearch(c, params, query) ==
    /\ pc[c] = "idle"
    /\ op' = [op EXCEPT ![c] = "search"]
    /\ args' = [args EXCEPT ![c] = Args("", "", params, None, None, None)]
    /\ pc' = [pc EXCEPT ![c] = "done"]
    /\ outcome' = [outcome EXCEPT ![c] =
           Return([type |-> "ListingGenerator", elems |-> <<>>])]
    /\ gen' = [gen EXCEPT ![c] =
           [NoGen EXCEPT !.state = "created", !.mode = "search",
                         !.params = SearchParams(params, query).kept]]
    /\ caller_params' = [caller_params EXCEPT ![c] =
           SearchParams(params, query).caller]
    /\ UNCHANGED <<reddit_vars, caught, trace, received, study_vars>>

\* a caller calls info: the argument check, then the generator object is
\* returned without running any of its body
CallInfo(c, a) ==
    /\ pc[c] = "idle"
    /\ op' = [op EXCEPT ![c] = "info"]
    /\ args' = [args EXCEPT ![c] = a]
    /\ pc' = [pc EXCEPT ![c] = "done"]
    /\ outcome' = [outcome EXCEPT ![c] =
           IF InfoCheck(a.fullnames, a.url) # NoExc
           THEN Raise(InfoCheck(a.fullnames, a.url))
           ELSE Return([type |-> "generator", elems |-> <<>>])]
    /\ gen' = [gen EXCEPT ![c] =
           IF InfoCheck(a.fullnames, a.url) # NoExc THEN NoGen
           ELSE [NoGen EXCEPT !.state = "created",
                              !.mode = IF a.url = None THEN "fullnames" ELSE "url",
                              !.rest = a.fullnames.ids, !.url = a.url]]
    /\ UNCHANGED <<reddit_vars, caught, trace, received, caller_params, study_vars>>

\* the body of info's generator runs from the top of the for loop, with g its
\* state, up to the next yield, the next self.get or its end (lines 542-558)
GenRun(c, g) ==
    IF g.buffer # <<>>
    THEN /\ gen' = [gen EXCEPT ![c] =
                [g EXCEPT !.state = "yielded", !.buffer = Tail(g.buffer),
                          !.yielded = Append(g.yielded, Head(g.buffer))]]
         /\ UNCHANGED trace
    ELSE IF \/ g.mode = "fullnames" /\ TakeChunk(g.rest) = <<>>
            \/ g.mode = "url" /\ g.requested
    THEN /\ gen' = [gen EXCEPT ![c] = [g EXCEPT !.state = "finished"]]
         /\ UNCHANGED trace
    ELSE /\ gen' = [gen EXCEPT ![c] =
                [g EXCEPT !.state = "transport", !.requested = TRUE,
                          !.chunk = IF g.mode = "url" THEN <<>> ELSE TakeChunk(g.rest),
                          !.rest = IF g.mode = "url" THEN <<>> ELSE AfterChunk(g.rest)]]
         /\ trace' = [trace EXCEPT ![c] = Append(@, CallEvent(_core,
                Transmitted(VerbArgs("get", InfoGetArgs(
                    IF g.mode = "url" THEN UrlParams(g.url)
                    ELSE InfoParams(TakeChunk(g.rest)))))))]

\* the consumer asks info's generator for its next item
GenNext(c) ==
    /\ op[c] = "info"
    /\ gen[c].state \in {"created", "yielded"}
    /\ GenRun(c, gen[c])
    /\ UNCHANGED <<reddit_vars, pc, op, args, caught, received, outcome,
                   caller_params, study_vars>>

\* the transport answers the get of info's generator
GenRespond(c, resp) ==
    /\ op[c] = "info"
    /\ gen[c].state = "transport"
    /\ received' = [received EXCEPT ![c] = Append(@, resp)]
    /\ IF ObjectifyRequestResult(resp).kind = "raise"
       THEN /\ gen' = [gen EXCEPT ![c] =
                   [@ EXCEPT !.state = "raised",
                             !.exc = ObjectifyRequestResult(resp).exc]]
            /\ UNCHANGED trace
       ELSE GenRun(c, [gen[c] EXCEPT !.buffer = Batch(ObjectifyRequestResult(resp))])
    /\ UNCHANGED <<reddit_vars, pc, op, args, caught, outcome, caller_params,
                   study_vars>>

Attempt(c) == IF pc[c] = "transport2" THEN 2 ELSE 1

\* the transport answers; request, _objectify_request and, for post, the
\* exception handler of lines 686-698 run up to the sleep or to the end
Respond(c, resp) ==
    /\ pc[c] \in {"transport1", "transport2", "fetch"}
    /\ received' = [received EXCEPT ![c] = Append(@, resp)]
    /\ LET res == VerbResult(op[c], resp)
       IN  IF /\ HasRetryHandler(op[c])
              /\ res.kind = "raise"
              /\ PostRetries(Attempt(c), res.exc, ratelimit_seconds)
           THEN /\ caught' = [caught EXCEPT ![c] = res.exc]
                /\ trace' = [trace EXCEPT ![c] =
                       Append(@, SleepEvent(SleepArgument(res.exc, ratelimit_seconds)))]
                /\ pc' = [pc EXCEPT ![c] = "sleeping"]
                /\ UNCHANGED outcome
           ELSE IF /\ op[c] = "random_subreddit"
                   /\ pc[c] = "transport1"
                   /\ RandomFetches(resp)
           THEN /\ caught' = [caught EXCEPT ![c] = res.exc]
                /\ EnterRequest(c, FetchArgs(RedirectPath(resp)[3]), "fetch")
           ELSE /\ caught' = [caught EXCEPT ![c] =
                       IF /\ HasRetryHandler(op[c]) /\ Attempt(c) = 1
                          /\ res.kind = "raise"
                          /\ res.exc.type = "RedditAPIException"
                       THEN res.exc ELSE @]
                /\ outcome' = [outcome EXCEPT ![c] =
                       CASE op[c] = "reply" -> ReplyResult(res)
                         [] op[c] = "random_subreddit" /\ pc[c] = "fetch" ->
                                FetchResult(RedirectPath(received[c][1])[3], resp)
                         [] op[c] = "random_subreddit" /\ pc[c] # "fetch" ->
                                RandomGetResult(resp)
                         [] OTHER -> res]
                /\ pc' = [pc EXCEPT ![c] = "done"]
                /\ UNCHANGED trace
    /\ UNCHANGED <<reddit_vars, op, args, caller_params, gen, study_vars>>

\* asyncio.sleep returns and post issues the retry, lines 691-697
Wake(c) ==
    /\ pc[c] = "sleeping"
    /\ EnterRequest(c, PostRetryArgs(args[c]), "transport2")
    /\ UNCHANGED <<reddit_vars, op, args, caught, received, caller_params, gen,
                   study_vars>>

\* faulty variant: the authorized core is assigned without the test of line 81
SetReadOnlyNoTest(value) ==
    /\ assigned' = IF value THEN "True" ELSE "False"
    /\ _core' = IF value THEN _read_only_core ELSE _authorized_core
    /\ setter_raised' = ""
    /\ UNCHANGED <<_read_only_core, _authorized_core, ratelimit_seconds,
                   _unique_counter, call_vars, study_vars>>

\* the read_only setter, lines 72-88
SetReadOnly(value) ==
    /\ assigned' = IF value THEN "True" ELSE "False"
    /\ IF value
       THEN /\ _core' = _read_only_core
            /\ setter_raised' = ""
       ELSE IF _authorized_core = None
       THEN /\ setter_raised' = "ClientException"
            /\ UNCHANGED _core
       ELSE /\ _core' = _authorized_core
            /\ setter_raised' = ""
    /\ UNCHANGED <<_read_only_core, _authorized_core, ratelimit_seconds,
                   _unique_counter, call_vars, study_vars>>

Next ==
    \/ \E c \in Calls : \E a \in RequestInputs : CallVerb(c, "request", a)
    \/ \E c \in Calls : \E a \in GetInputs : CallVerb(c, "get", a)
    \/ \E c \in Calls : \E a \in BodyVerbInputs :
           \E o \in {"delete", "patch", "put"} : CallVerb(c, o, a)
    \/ \E c \in Calls : \E a \in PostInputs : CallVerb(c, "post", a)
    \/ \E c \in Calls : \E a \in InfoInputs : CallInfo(c, a)
    \/ \E c \in Calls : \E body \in ReplyBodies : \E fullname \in ReplyTargets :
           CallReply(c, body, fullname)
    \/ \E c \in Calls : \E nsfw \in BOOLEAN : CallRandom(c, nsfw)
    \/ \E c \in Calls : \E params \in SearchChoices : CallSearch(c, params, PyNone)
    \/ \E c \in Calls : \E resp \in Responses : Respond(c, resp)
    \/ \E c \in Calls : Wake(c)
    \/ \E value \in BOOLEAN : SetReadOnly(value)

Spec == Init /\ [][Next]_vars

---------------------------------------------------------------------------
(* _handle_rate_limit on its own, over many messages and thresholds        *)

MaxDigits == 3
StudyDigits == {"0", "3", "5", "7"}
DigitStrings == UNION { [1..n -> StudyDigits] : n \in 0..MaxDigits }
StudyMessages ==
    { <<"w", " ">> \o ds \o <<" ", u, "s">> :
        ds \in DigitStrings, u \in {"second", "minute", "w"} }
StudyItems ==
    { ErrorItem(ty, m, None) : ty \in {"RATELIMIT", "BAD_CAPTCHA"}, m \in StudyMessages }
SecondItems ==
    { RateLimitItem(Msg5s), RateLimitItem(Msg5m), RateLimitItem(MsgPlain) }
StudyItemLists ==
    {<<>>} \cup { <<i>> : i \in StudyItems }
           \cup { <<i, j>> : i \in StudyItems, j \in SecondItems }
StudyLimits == {0, 5, 7, 77, 300, 1980}

InitRate ==
    /\ InitReddit
    /\ ratelimit_seconds \in StudyLimits
    /\ InitCalls
    /\ rl_in \in { RedditAPIException(il, NoBody) : il \in StudyItemLists }
    /\ rl_out = NotComputed

ComputeRateLimit ==
    /\ rl_in.type = "RedditAPIException"
    /\ ~rl_out.done
    /\ rl_out' = [done |-> TRUE, result |-> _handle_rate_limit(rl_in, ratelimit_seconds)]
    /\ UNCHANGED <<reddit_vars, call_vars, rl_in>>

NextRate == ComputeRateLimit

SpecRate == InitRate /\ [][NextRate]_vars

---------------------------------------------------------------------------
(* Reddit.request over many parameter mappings                             *)

StudyValues ==
    { PyNone, PyBool(TRUE), PyBool(FALSE), PyInt("0"), PyInt("7"), PyStr(""),
      PyStr("x"), PyList("[]"), PyList("[1]") }
StudyKeys == {"a", "b"}
StudyParams ==
    {NoParams} \cup { PyDict(m) : m \in UNION { [ks -> StudyValues] : ks \in SUBSET StudyKeys } }
StudyRequestInputs ==
    { Args(m, "api/info", pa, None, None, None) : m \in {"GET"}, pa \in StudyParams }
StudyResponses ==
    { Response("ok", NoBody, [shape |-> "list", items |-> <<>>, children |-> <<"t3_a">>]),
      Response("ServerError", NoBody, NoRaw) }

NextParams ==
    \/ \E c \in Calls : \E a \in StudyRequestInputs : CallVerb(c, "request", a)
    \/ \E c \in Calls : \E resp \in StudyResponses : Respond(c, resp)

SpecParams == Init /\ [][NextParams]_vars

---------------------------------------------------------------------------
(* Reddit.info iterated over lists of up to 250 fullnames                  *)

Fullname(i) == "t3_" \o ToString(i)
FullnameCounts == {0, 1, 2, 99, 100, 101, 200, 250}
StudyFullnames ==
    { [kind |-> "list", ids |-> [i \in 1..n |-> Fullname(i)]] : n \in FullnameCounts }
StudyInfoInputs ==
    { InfoArgs(f, None) : f \in StudyFullnames } \cup { InfoArgs(NoFullnames, "url") }

\* every second item of a sequence, last one first
EveryOtherReversed(seq) ==
    [i \in 1..((Len(seq) + 1) \div 2) |-> seq[Len(seq) - 2 * (i - 1)]]

\* what the server may resolve for a chunk: all of it in order, nothing, or a
\* part of it in another order; for a url, two submissions or none
Resolved(chunk) ==
    IF chunk = <<>> THEN { <<>>, <<"t3_u1", "t3_u2">> }
    ELSE { chunk, <<>>, EveryOtherReversed(chunk) }

InfoResponses(chunk) ==
    { Response("ok", NoBody, [shape |-> "list", items |-> <<>>, children |-> r]) :
        r \in Resolved(chunk) }
    \cup { Response("ServerError", NoBody, NoRaw),
           Response("ok", NoBody,
                    [shape |-> "errors", items |-> <<RateLimitItem(Msg5s)>>,
                     children |-> <<>>]) }

NextInfo ==
    \/ \E c \in Calls : \E a \in StudyInfoInputs : CallInfo(c, a)
    \/ \E c \in Calls : GenNext(c)
    \/ \E c \in Calls : \E resp \in InfoResponses(gen[c].chunk) : GenRespond(c, resp)

SpecInfo == Init /\ [][NextInfo]_vars

---------------------------------------------------------------------------
(* Properties                                                              *)

CallEvents(c) == { i \in 1..Len(trace[c]) : trace[c][i].ev = "call" }
SleepEvents(c) == { i \in 1..Len(trace[c]) : trace[c][i].ev = "sleep" }
Done(c) == pc[c] = "done"
Raised(c, type) == outcome[c].kind = "raise" /\ outcome[c].exc.type = type

\* C1: Reddit.post retries at most once. The transport is called at most
\* twice; the events of a post are a prefix of call, sleep, call; the sleep
\* follows a first attempt that raised a RedditAPIException for which
\* _handle_rate_limit returned a value, and lasts exactly that value; whatever
\* the second attempt gives, an exception included, is what the caller gets,
\* with no further sleep or call.
C1_PostRetriesAtMostOnce ==
    \A c \in Calls : op[c] = "post" =>
        /\ Cardinality(CallEvents(c)) <= 2
        /\ Len(trace[c]) <= 3
        /\ \A i \in 1..Len(trace[c]) :
               trace[c][i].ev = (IF i = 2 THEN "sleep" ELSE "call")
        /\ Len(trace[c]) = 2 <=> pc[c] = "sleeping"
        /\ Len(trace[c]) >= 2 =>
               /\ Len(received[c]) >= 1
               /\ LET first == ObjectifyRequestResult(received[c][1])
                  IN  /\ first.kind = "raise"
                      /\ first.exc.type = "RedditAPIException"
                      /\ caught[c] = first.exc
                      /\ _handle_rate_limit(first.exc, ratelimit_seconds) # NoneNumber
                      /\ trace[c][2].secs
                             = _handle_rate_limit(first.exc, ratelimit_seconds)
        /\ Len(received[c]) = 2 =>
               /\ Len(trace[c]) = 3
               /\ Done(c)
               /\ outcome[c] = ObjectifyRequestResult(received[c][2])

\* a post whose retry hit the rate limit again and raised it to the caller
C1_Witness ==
    \E c \in Calls :
        /\ op[c] = "post" /\ Done(c)
        /\ Len(trace[c]) = 3
        /\ Raised(c, "RedditAPIException")
        /\ _handle_rate_limit(outcome[c].exc, ratelimit_seconds) # NoneNumber

\* the verbs that go through Reddit.request
Verbs == {"request", "get", "delete", "patch", "put", "post"}
Started(c) == pc[c] # "idle"

\* C2 as stated: whenever both data and json are passed to a verb, the call
\* fails with ClientException and no transport call is made.
C2_AnyDataAndJsonRejected ==
    \A c \in Calls :
        (/\ op[c] \in Verbs \ {"get"}
         /\ Started(c)
         /\ args[c].data # None
         /\ args[c].json # None)
        => /\ Done(c)
           /\ Raised(c, "ClientException")
           /\ CallEvents(c) = {}

\* C2, amended: a verb called with a non-empty data and a non-empty json
\* fails with ClientException before any transport call; with data or json
\* None or empty the check passes: the transport is called and no
\* ClientException is raised.
C2_TruthyDataAndJsonRejected ==
    \A c \in Calls :
        (op[c] \in Verbs \ {"get"} /\ Started(c)) =>
            IF args[c].data \notin {None, "{}"} /\ args[c].json \notin {None, "{}"}
            THEN /\ Done(c)
                 /\ Raised(c, "ClientException")
                 /\ trace[c] = <<>>
                 /\ received[c] = <<>>
            ELSE /\ ~Raised(c, "ClientException")
                 /\ CallEvents(c) # {}

\* a post rejected for its two bodies
C2_Witness ==
    /\ \E c \in Calls :
           /\ op[c] = "post" /\ args[c].data = "form" /\ args[c].json = "obj"
           /\ Raised(c, "ClientException") /\ trace[c] = <<>>

\* C4: when the first attempt of a post raised a RedditAPIException for which
\* _handle_rate_limit returns no value, post raises that same exception after
\* exactly one transport call and no sleep.
C4_DeclinedPropagates ==
    \A c \in Calls :
        (/\ op[c] = "post"
         /\ Len(received[c]) >= 1
         /\ ObjectifyRequestResult(received[c][1]).kind = "raise"
         /\ ObjectifyRequestResult(received[c][1]).exc.type = "RedditAPIException"
         /\ _handle_rate_limit(ObjectifyRequestResult(received[c][1]).exc,
                               ratelimit_seconds) = NoneNumber)
        => /\ Done(c)
           /\ outcome[c] = Raise(ObjectifyRequestResult(received[c][1]).exc)
           /\ Cardinality(CallEvents(c)) = 1
           /\ SleepEvents(c) = {}
           /\ Len(received[c]) = 1

\* a post that raised a rate-limit error of 5 minutes under a threshold of 5 s
C4_Witness ==
    \E c \in Calls :
        /\ op[c] = "post" /\ Done(c)
        /\ ratelimit_seconds = 5
        /\ Raised(c, "RedditAPIException")
        /\ outcome[c].exc.items = <<RateLimitItem(Msg5m)>>
        /\ Len(trace[c]) = 1

IsBadRequest(resp) == resp.status = "BadRequest"
Generic(body) == body.json /\ body.keys = {"error", "message"}

\* C7: a BadRequest whose decoded body has exactly the keys error and message
\* is raised to the caller as it came from the transport, not wrapped.
C7_GenericBadRequestReraised ==
    \A c \in Calls : \A i \in 1..Len(received[c]) :
        (IsBadRequest(received[c][i]) /\ Generic(received[c][i].body))
        => /\ i = Len(received[c])
           /\ Done(c)
           /\ outcome[c] = Raise(TransportError(received[c][i]))
           /\ outcome[c].exc.type = "BadRequest"
           /\ outcome[c].exc.body = received[c][i].body

C7_Witness ==
    \E c \in Calls :
        /\ op[c] = "request" /\ Done(c)
        /\ Len(received[c]) = 1
        /\ IsBadRequest(received[c][1]) /\ Generic(received[c][1].body)
        /\ Raised(c, "BadRequest")

\* the body has the shape request expects of a structured error
WellFormed(body) ==
    /\ body.json
    /\ ~Generic(body)
    /\ "reason" \in body.keys
    /\ "explanation" \in body.keys
    /\ "fields" \in body.keys => Len(body.fields) = 1

\* the RedditAPIException C8 describes for a body
Wrapped(body) ==
    [type |-> "RedditAPIException",
     items |-> << [error_type |-> body.reason, message |-> body.explanation,
                   field |-> IF "fields" \in body.keys THEN body.fields[1]
                             ELSE "None"] >>,
     body |-> body]

\* what Reddit.request raised for answer i of call c: for post the exception
\* reaches the handler of lines 686-698 first
RequestRaised(c, i, e) ==
    IF HasRetryHandler(op[c]) /\ i = 1
    THEN caught[c] = e
    ELSE Done(c) /\ outcome[c] = Raise(e)

\* C8 as stated: every BadRequest with a decoded body other than the generic
\* one makes request raise the RedditAPIException built from reason,
\* explanation and the single field or null.
C8_AnyStructuredBodyWrapped ==
    \A c \in Calls : \A i \in 1..Len(received[c]) :
        (/\ IsBadRequest(received[c][i])
         /\ received[c][i].body.json
         /\ ~Generic(received[c][i].body))
        => IF HasRetryHandler(op[c]) /\ i = 1
           THEN caught[c].type = "RedditAPIException"
           ELSE Done(c) /\ Raised(c, "RedditAPIException")

\* C8, amended: when the decoded body is not the generic one, carries reason
\* and explanation, and its fields list, if present, has exactly one element,
\* request raises the RedditAPIException built from reason, explanation and
\* that element, or null when fields is absent.
C8_WellFormedBodyWrapped ==
    \A c \in Calls : \A i \in 1..Len(received[c]) :
        (IsBadRequest(received[c][i]) /\ WellFormed(received[c][i].body))
        => RequestRaised(c, i, Wrapped(received[c][i].body))

\* a request that raised the wrapped error with its single field
C8_Witness ==
    \E c \in Calls :
        /\ op[c] = "request" /\ Done(c)
        /\ Len(received[c]) = 1
        /\ IsBadRequest(received[c][1])
        /\ "fields" \in received[c][1].body.keys
        /\ Raised(c, "RedditAPIException")
        /\ outcome[c].exc.items[1].field = "ratelimit"

\* C9: a BadRequest whose body is not JSON is raised at once as an Exception;
\* no transport call and no sleep follow it, through post as well.
C9_NoJsonBodyFatal ==
    \A c \in Calls : \A i \in 1..Len(received[c]) :
        (IsBadRequest(received[c][i]) /\ ~received[c][i].body.json)
        => /\ i = Len(received[c])
           /\ Done(c)
           /\ Raised(c, "Exception")
           /\ Cardinality(CallEvents(c)) = i
           /\ trace[c][Len(trace[c])].ev = "call"

C9_Witness ==
    \E c \in Calls :
        /\ op[c] = "post" /\ Done(c)
        /\ Len(received[c]) = 1
        /\ IsBadRequest(received[c][1]) /\ ~received[c][1].body.json
        /\ Raised(c, "Exception")
        /\ Len(trace[c]) = 1

\* C10: info called with both fullnames and url, or with neither, raises
\* TypeError from the call itself: no generator is returned and no request
\* is issued.
C10_InfoArgumentCheck ==
    \A c \in Calls :
        (/\ op[c] = "info"
         /\ (args[c].fullnames.kind = "NoneType") = (args[c].url = None))
        => /\ Done(c)
           /\ Raised(c, "TypeError")
           /\ outcome[c].value.type # "generator"
           /\ trace[c] = <<>>

C10_Witness ==
    /\ \E c \in Calls :
           /\ op[c] = "info" /\ Raised(c, "TypeError")
           /\ args[c].fullnames.kind = "list" /\ args[c].url # None

\* the delays, in seconds, that the RATELIMIT items of an exception state
\* within the threshold
StatedDelays(exception, limit) ==
    { DelayOf(RegexSearch(exception.items[i].message)) :
        i \in { j \in 1..Len(exception.items) :
                  /\ exception.items[j].error_type = "RATELIMIT"
                  /\ RegexSearch(exception.items[j].message).found
                  /\ DelayOf(RegexSearch(exception.items[j].message)) <= limit } }

\* C3: _handle_rate_limit returns a number only when a RATELIMIT item states
\* a delay of at most config.ratelimit_seconds; when every delay stated
\* exceeds the threshold it returns no value.
C3_WaitOnlyWithinThreshold ==
    rl_out.done =>
        /\ rl_out.result # NoneNumber => StatedDelays(rl_in, ratelimit_seconds) # {}
        /\ StatedDelays(rl_in, ratelimit_seconds) = {} => rl_out.result = NoneNumber

\* "5 minutes" under a threshold below 300 gives no value
C3_Witness ==
    /\ rl_out.done
    /\ Len(rl_in.items) = 1
    /\ rl_in.items[1].error_type = "RATELIMIT"
    /\ rl_in.items[1].message = <<"w", " ", "5", " ", "minute", "s">>
    /\ ratelimit_seconds = 77
    /\ rl_out.result = NoneNumber

\* C5: an authorised wait for a delay of d seconds is d + min(d/10, 1), here
\* in tenths of a second, and never exceeds config.ratelimit_seconds + 1.
C5_SleepIsDelayPlusMargin ==
    (rl_out.done /\ rl_out.result # NoneNumber) =>
        /\ \E d \in StatedDelays(rl_in, ratelimit_seconds) :
               rl_out.result = << 10 * d + (IF d < 10 THEN d ELSE 10) >>
        /\ rl_out.result[1] <= 10 * (ratelimit_seconds + 1)

\* "7 seconds" under a threshold of 7 gives 7.7
C5_Witness ==
    /\ rl_out.done
    /\ Len(rl_in.items) = 1
    /\ rl_in.items[1].message = <<"w", " ", "7", " ", "second", "s">>
    /\ ratelimit_seconds = 7
    /\ rl_out.result = <<77>>

\* the parameter values Python takes as false
Falsy == { PyNone, PyInt("0"), PyStr(""), PyList("[]") }

\* C6: of a non-empty params mapping, request transmits every boolean entry
\* as the string "true" or "false", every other truthy entry unchanged, and
\* no other entry.
C6_ParamsNormalized ==
    \A c \in Calls :
        (op[c] = "request" /\ Started(c) /\ ~args[c].params.is_none
         /\ DOMAIN args[c].params.map # {})
        => /\ Len(trace[c]) = 1
           /\ LET given == args[c].params.map
                  sent == trace[c][1].req.params
              IN  /\ ~sent.is_none
                  /\ DOMAIN sent.map \subseteq DOMAIN given
                  /\ \A k \in DOMAIN given :
                         IF given[k].kind = "bool"
                         THEN /\ k \in DOMAIN sent.map
                              /\ sent.map[k] =
                                     [kind |-> "str",
                                      repr |-> IF given[k] = PyBool(TRUE)
                                               THEN "true" ELSE "false"]
                         ELSE IF given[k] \in Falsy
                         THEN k \notin DOMAIN sent.map
                         ELSE k \in DOMAIN sent.map /\ sent.map[k] = given[k]

\* a request sent with False kept as "false" and an empty string dropped
C6_Witness ==
    \E c \in Calls :
        /\ op[c] = "request" /\ Len(trace[c]) = 1
        /\ args[c].params = PyDict([k \in {"a", "b"} |->
                                IF k = "a" THEN PyBool(FALSE) ELSE PyStr("")])
        /\ trace[c][1].req.params = PyDict([k \in {"a"} |-> PyStr("false")])

---------------------------------------------------------------------------
(* Reddit.info: the requests of a full iteration                           *)

InfoCalls(c) == SelectSeq(trace[c], LAMBDA e : e.ev = "call")
Iterating(c) == op[c] = "info" /\ gen[c].mode = "fullnames"

\* the request that carries the identifiers at positions 100(k-1)+1 ..
\* min(100k, N) of ids
BatchRequest(ids, k) ==
    [method |-> "GET", path |-> "api/info/",
     params |-> PyDict([key \in {"id"} |-> PyStr(Join(
         SubSeq(ids, 100 * (k - 1) + 1,
                IF 100 * k < Len(ids) THEN 100 * k ELSE Len(ids))))]),
     data |-> None, files |-> None, json |-> None]

\* C11: while info(fullnames) over N identifiers is iterated, the k-th GET
\* carries the identifiers at positions 100(k-1)+1 .. min(100k, N),
\* comma-joined and in input order, there are never more than ceil(N/100)
\* requests, and once the iteration is complete there are exactly ceil(N/100)
C11_InfoBatches ==
    \A c \in Calls :
        Iterating(c) =>
            LET ids == args[c].fullnames.ids
                calls == InfoCalls(c)
            IN  /\ Len(calls) <= (Len(ids) + 99) \div 100
                /\ \A k \in 1..Len(calls) : calls[k].req = BatchRequest(ids, k)
                /\ gen[c].state = "finished" =>
                       Len(calls) = (Len(ids) + 99) \div 100

C11_Witness ==
    \E c \in Calls :
        /\ Iterating(c)
        /\ gen[c].state = "finished"
        /\ Len(args[c].fullnames.ids) = 250
        /\ Len(InfoCalls(c)) = 3

---------------------------------------------------------------------------
(* Reddit.info: what the generator yields                                  *)

IsListing(resp) == resp.status = "ok" /\ resp.raw.shape = "list"

RECURSIVE Returned(_)
\* the items of the answers, in the order the answers came and, within one
\* answer, in the order the server listed them
Returned(answers) ==
    IF answers = <<>> THEN <<>>
    ELSE (IF IsListing(Head(answers)) THEN Head(answers).raw.children ELSE <<>>)
             \o Returned(Tail(answers))

\* C12: what info's generator has yielded, followed by the items of the
\* current batch it has yet to yield, is the concatenation of the answers in
\* request order, each in the server's order; when the iteration is complete
\* the yielded sequence is that concatenation; and the generator raises only
\* when an answer was not a listing, never for identifiers left unresolved
C12_InfoYieldsAnswersInOrder ==
    \A c \in Calls :
        op[c] = "info" =>
            /\ gen[c].yielded \o gen[c].buffer = Returned(received[c])
            /\ gen[c].state = "finished" => gen[c].yielded = Returned(received[c])
            /\ gen[c].state = "raised" =>
                   ~IsListing(received[c][Len(received[c])])

C12_Witness ==
    \E c \in Calls :
        /\ Iterating(c)
        /\ gen[c].state = "finished"
        /\ Len(args[c].fullnames.ids) = 250
        /\ Len(received[c]) = 3
        /\ gen[c].yielded =
               EveryOtherReversed(SubSeq(args[c].fullnames.ids, 1, 100))
                   \o SubSeq(args[c].fullnames.ids, 201, 250)

---------------------------------------------------------------------------
(* The verbs other than post                                               *)

PlainVerbs == {"request", "get", "put", "patch", "delete"}
RateLimited(resp) ==
    /\ resp.status = "ok"
    /\ resp.raw.shape = "errors"
    /\ resp.raw.items = <<RateLimitItem(Msg5s)>>

\* C13: a call of request, get, put, patch or delete that passes the argument
\* check has made exactly one transport call and no sleep, at any moment
\* after it started; when the answer has come the call is over, and what the
\* caller gets is what that one attempt gave, a rate-limit
\* RedditAPIException included
C13_OnlyPostBacksOff ==
    \A c \in Calls :
        (op[c] \in PlainVerbs /\ Started(c)
           /\ ~(Done(c) /\ Raised(c, "ClientException") /\ received[c] = <<>>)) =>
            /\ Len(trace[c]) = 1
            /\ trace[c][1].ev = "call"
            /\ pc[c] \in {"transport1", "done"}
            /\ Len(received[c]) <= 1
            /\ Len(received[c]) = 1 =>
                   /\ Done(c)
                   /\ outcome[c] = VerbResult(op[c], received[c][1])

C13_Witness ==
    \E c \in Calls :
        /\ op[c] = "get"
        /\ Done(c)
        /\ ratelimit_seconds = 300
        /\ RateLimited(received[c][1])
        /\ Raised(c, "RedditAPIException")
        /\ _handle_rate_limit(outcome[c].exc, ratelimit_seconds) # NoneNumber
        /\ Len(trace[c]) = 1

---------------------------------------------------------------------------
(* The read_only setter                                                    *)

\* a step that is an assignment of the given value to read_only
Assigns(value) == assigned' = value /\ UNCHANGED call_vars

\* the read_only getter, lines 67-70
read_only == _core = _read_only_core

\* C14: an assignment read_only = False made when there is no authorized core
\* raises ClientException and leaves _core as it was, so that read_only still
\* reads True; an assignment read_only = True raises nothing and makes the
\* read-only core the active one
C14_SetterRefusesWithoutAuthorizedCore ==
    [][ /\ (Assigns("False") /\ _authorized_core = None) =>
              /\ setter_raised' = "ClientException"
              /\ _core' = _core
              /\ read_only'
        /\ Assigns("True") =>
              /\ setter_raised' = ""
              /\ _core' = _read_only_core
              /\ read_only' ]_vars

C14_Witness ==
    /\ assigned = "False"
    /\ _authorized_core = None
    /\ setter_raised = "ClientException"
    /\ read_only
    /\ \E c \in Calls : Started(c)

---------------------------------------------------------------------------
(* Operations in flight together                                           *)

\* the call has made its first attempt, slept and issued the retry
Retried(c) ==
    /\ HasRetryHandler(op[c])
    /\ Len(trace[c]) = 3
    /\ trace[c][1].ev = "call"
    /\ trace[c][2].ev = "sleep"
    /\ trace[c][3].ev = "call"

\* C15: no other operation changes what an operation in flight sends: the
\* retry of a post goes through the transport core its first attempt went
\* through, whatever ran while the post was suspended in the network call or
\* in the backoff sleep
C15_RetryThroughSameCore ==
    \A c \in Calls : Retried(c) => trace[c][3].core = trace[c][1].core

---------------------------------------------------------------------------
(* The retry of Reddit.post                                                *)

\* C20: the retry post issues after the rate-limit sleep sends the request of
\* the first attempt: the same method (POST), path, params, data, files and
\* json body
C20_RetrySendsSameRequest ==
    \A c \in Calls :
        Retried(c) =>
            /\ trace[c][3].req.method = "POST"
            /\ trace[c][3].req = trace[c][1].req

---------------------------------------------------------------------------
(* Exceptions caught on the way to the caller                              *)

\* what the i-th awaited transport call of the operation gave: _fetch awaits
\* Reddit.request, everything else _objectify_request
AttemptResult(c, i) ==
    IF op[c] = "random_subreddit" /\ i = 2 THEN RequestResult(received[c][i])
    ELSE VerbResult(op[c], received[c][i])

Failed(c, i) == AttemptResult(c, i).kind = "raise"

\* the failure of the first attempt was answered by post's sleep and retry
ResolvedByRetry(c, i) ==
    /\ HasRetryHandler(op[c])
    /\ i = 1
    /\ Len(trace[c]) >= 2
    /\ trace[c][2].ev = "sleep"

\* the failure ended the operation and is what the caller got
RaisedToCaller(c, i) ==
    /\ i = Len(received[c])
    /\ outcome[c] = Raise(AttemptResult(c, i).exc)

\* reply's post gave an empty result sequence: there is no first object
MissingResult(c) ==
    /\ op[c] = "reply"
    /\ received[c] # <<>>
    /\ ~Failed(c, Len(received[c]))
    /\ AttemptResult(c, Len(received[c])).value.type = "list"
    /\ AttemptResult(c, Len(received[c])).value.elems = <<>>

\* C16 as stated: once an operation is over, every failure that arose in it
\* was resolved by post's retry or raised to the caller, a missing result
\* included; nothing was caught and followed by a normal return
C16_NoErrorSuppressed ==
    \A c \in Calls :
        Done(c) =>
            /\ \A i \in 1..Len(received[c]) :
                   Failed(c, i) => ResolvedByRetry(c, i) \/ RaisedToCaller(c, i)
            /\ MissingResult(c) => outcome[c].kind = "raise"

\* the Redirect of random_subreddit's get, caught at line 731
CaughtRedirect(c, i) ==
    /\ op[c] = "random_subreddit"
    /\ i = 1
    /\ AttemptResult(c, i).exc.type = "Redirect"

\* C16: once an operation is over, every failure that arose in it was resolved
\* by post's retry or is the exception the caller got, except that
\* random_subreddit catches the Redirect of its get and goes on, and that reply
\* returns None for a missing result
C16_OnlyRedirectAndMissingReplyCaught ==
    \A c \in Calls :
        Done(c) =>
            /\ \A i \in 1..Len(received[c]) :
                   Failed(c, i) =>
                       \/ ResolvedByRetry(c, i)
                       \/ RaisedToCaller(c, i)
                       \/ CaughtRedirect(c, i)
            /\ MissingResult(c) => outcome[c] = Return(NoneValue)

C16_Witness ==
    \E c \in Calls :
        /\ Done(c)
        /\ op[c] = "random_subreddit"
        /\ Len(received[c]) = 2
        /\ Failed(c, 1)
        /\ outcome[c] = Return([type |-> "Subreddit", elems |-> <<"redditdev">>])

---------------------------------------------------------------------------
(* ReplyableMixin.reply                                                    *)

\* the POST of the comment endpoint with text = body and thing_id = fullname
ReplyRequest(body, fullname) ==
    [method |-> "POST", path |-> "api/comment/", params |-> NoParams,
     data |-> "text=" \o body \o "&thing_id=" \o fullname,
     files |-> None, json |-> None]

\* C17: reply makes one call of post: its first transport call, made when
\* reply is called, is the POST of the comment endpoint with text = body and
\* thing_id = the target's fullname, and the only further call there can be
\* is post's retry of that request after its sleep; when the last attempt gave
\* a result sequence reply returns its first object, or None when the
\* sequence is empty
C17_ReplyPostsAndReturnsFirst ==
    \A c \in Calls :
        (op[c] = "reply" /\ Started(c)) =>
            /\ Len(trace[c]) \in 1..3
            /\ trace[c][1].ev = "call"
            /\ Len(trace[c]) >= 2 => trace[c][2].ev = "sleep"
            /\ \A i \in CallEvents(c) :
                   trace[c][i].req = ReplyRequest(args[c].body, args[c].fullname)
            /\ (Done(c) /\ ~Failed(c, Len(received[c]))
                  /\ AttemptResult(c, Len(received[c])).value.type = "list") =>
                   LET comments == AttemptResult(c, Len(received[c])).value.elems
                   IN  IF comments = <<>> THEN outcome[c] = Return(NoneValue)
                       ELSE outcome[c] = Return(Object(comments[1]))

C17_Witness ==
    \E c \in Calls :
        /\ Done(c)
        /\ MissingResult(c)
        /\ args[c].body = "hello"
        /\ Len(trace[c]) = 1
        /\ outcome[c] = Return(NoneValue)

---------------------------------------------------------------------------
(* The caller's params mapping                                             *)

TakesParams == Verbs \cup {"search"}

\* C18: after a call that was handed a params mapping, the caller's mapping
\* has the keys and values it was handed with; the generator of
\* Subreddit.search holds the caller's entries in a mapping of its own, and
\* what Reddit.request sends is another mapping than the caller's
C18_CallerParamsUnchanged ==
    \A c \in Calls :
        (op[c] \in TakesParams /\ Started(c)) =>
            /\ caller_params[c] = args[c].params
            /\ op[c] = "search" =>
                   /\ \A k \in DOMAIN args[c].params.map :
                          gen[c].params.map[k] = args[c].params.map[k]
                   /\ gen[c].params # caller_params[c]
            /\ (op[c] \in Verbs /\ trace[c] # <<>> /\ TruthyParams(args[c].params)) =>
                   trace[c][1].req.params = NormalizeParams(args[c].params)

C18_Witness ==
    \E c \in Calls :
        /\ op[c] = "request"
        /\ Done(c)
        /\ trace[c] # <<>>
        /\ TruthyParams(args[c].params)
        /\ trace[c][1].req.params # args[c].params
        /\ caller_params[c] = args[c].params

---------------------------------------------------------------------------
(* The amount and unit of a rate-limit message                             *)

\* the message reads: text, blank, a run of digits, blank, unit, plural s
StatesAmount(msg) ==
    /\ Len(msg) > 5
    /\ msg[Len(msg) - 1] \in {"second", "minute"}
    /\ \A j \in 3..(Len(msg) - 3) : IsDigit(msg[j])

\* N seconds for "N seconds", 60 N seconds for "N minutes"
StatedSeconds(msg) ==
    PyIntOf(SubSeq(msg, 3, Len(msg) - 3))
        * (IF msg[Len(msg) - 1] = "minute" THEN 60 ELSE 1)

\* C19: for an exception whose one item is a RATELIMIT item with a message
\* that states an amount N and a unit, _handle_rate_limit works with a delay
\* of N seconds (60 N for minutes), whatever the integer N: it returns that
\* delay plus the margin when it is within the threshold and nothing when it
\* is not; items of another error type give no wait, and a RATELIMIT message
\* without amount and unit gives no value
C19_DelayIsStatedAmount ==
    (rl_out.done /\ Len(rl_in.items) = 1) =>
        LET item == rl_in.items[1]
            d == StatedSeconds(item.message)
        IN  /\ (item.error_type = "RATELIMIT" /\ StatesAmount(item.message)) =>
                   rl_out.result =
                       IF d <= ratelimit_seconds
                       THEN << 10 * d + (IF d < 10 THEN d ELSE 10) >>
                       ELSE NoneNumber
            /\ item.error_type # "RATELIMIT" => rl_out.result = NoneNumber
            /\ (item.error_type = "RATELIMIT" /\ ~StatesAmount(item.message)) =>
                   rl_out.result = NoneNumber

---------------------------------------------------------------------------
(* The cores                                                               *)

\* C21: in every state after construction, whatever read_only assignments
\* were made and whether they raised, the active core is a core and is the
\* read-only core or the authorized core, the read-only core is not None,
\* read_only reads True exactly when the active core is the read-only core
\* (so it reads True after the last assignment if that assigned True or
\* raised, and False if it assigned False without raising), and without an
\* authorized core read_only reads True
C21_ActiveCoreIsOneOfTheTwo ==
    /\ _core # None
    /\ _core \in {_read_only_core, _authorized_core}
    /\ _read_only_core # None
    /\ read_only <=> _core = _read_only_core
    /\ read_only <=> _core # _authorized_core
    /\ assigned = "True" => read_only
    /\ (assigned = "False" /\ setter_raised = "ClientException") => read_only
    /\ (assigned = "False" /\ setter_raised = "") => ~read_only
    /\ _authorized_core = None => read_only

C21_Witness ==
    /\ _authorized_core # None
    /\ assigned = "True"
    /\ read_only
    /\ \E c \in Calls :
           /\ Retried(c)
           /\ trace[c][1].core = _authorized_core
           /\ trace[c][3].core = _read_only_core

====
